---- MODULE Spec2Model ----
(***************************************************************************)
(* Model of pkg/pki/pki.go: CreateAuraeRootCA, createCAFiles,              *)
(* writeStringToFile, getCertBuf and getKeyBuf.                            *)
(*                                                                         *)
(* Every invocation of CreateAuraeRootCA is a process that walks through   *)
(* the statements of the function; the file system under the output path   *)
(* is shared by all invocations.  Byte strings are sequences of naturals.  *)
(* The RSA key pairs and the digest are scaled down (16-bit moduli, a      *)
(* 15-bit digest) so that the encodings can be computed by the checker;    *)
(* big.Int values are kept as their big-endian byte strings, so that the   *)
(* 128-bit serial number keeps its width.                                  *)
(***************************************************************************)
EXTENDS Integers, Sequences, FiniteSets, TLC

(***************************************************************************)
(* Bounds of the model.                                                    *)
(***************************************************************************)
\* Largest number of bytes a failing WriteString leaves behind.
MaxPartial == 1
\* Length of the content a pre-existing ca.crt / ca.key holds.
OldLen == 3

(***************************************************************************)
(* Byte strings and big integers.                                          *)
(***************************************************************************)
Drop(s, n) == IF n >= Len(s) THEN <<>> ELSE SubSeq(s, n + 1, Len(s))
Take(s, n) == IF n >= Len(s) THEN s ELSE SubSeq(s, 1, n)
IsPrefix(s, t) == Len(s) <= Len(t) /\ SubSeq(t, 1, Len(s)) = s

Zeros(n) == [i \in 1..n |-> 0]

\* big.Int.Bytes(): big-endian magnitude without leading zero bytes.
RECURSIVE NatBytes(_)
NatBytes(n) == IF n = 0 THEN <<>> ELSE NatBytes(n \div 256) \o <<n % 256>>

RECURSIVE StripZeros(_)
StripZeros(b) == IF b # <<>> /\ b[1] = 0 THEN StripZeros(Tail(b)) ELSE b

\* One doubling of a big-endian byte string.
RECURSIVE DoubleCarry(_)
DoubleCarry(b) ==
    \* result: <<carry, bytes>>
    IF b = <<>> THEN <<0, <<>>>>
    ELSE LET rest == DoubleCarry(Tail(b))
             v    == 2 * b[1] + rest[1]
         IN  <<v \div 256, <<v % 256>> \o rest[2]>>

BigDouble(b) ==
    LET r == DoubleCarry(b) IN StripZeros(<<r[1]>> \o r[2])

RECURSIVE BigLshBits(_, _)
BigLshBits(b, n) == IF n = 0 THEN b ELSE BigLshBits(BigDouble(b), n - 1)

\* big.Int.Lsh(x, n)
BigLsh(b, n) ==
    IF b = <<>> THEN <<>> ELSE BigLshBits(b, n % 8) \o Zeros(n \div 8)

RECURSIVE LexLess(_, _)
LexLess(a, b) ==
    IF a = <<>> THEN FALSE
    ELSE IF a[1] # b[1] THEN a[1] < b[1]
    ELSE LexLess(Tail(a), Tail(b))

\* big.Int.Cmp(a, b) < 0 for non-negative values.
BigLess(a, b) ==
    \/ Len(a) < Len(b)
    \/ Len(a) = Len(b) /\ LexLess(a, b)

(***************************************************************************)
(* crypto: scaled-down RSA keys and digest.                                *)
(***************************************************************************)
\* The key pairs rsa.GenerateKey can return (scaled-down moduli): the
\* encodings of two keys of the same size can differ in length.
Keys ==
    { [N |-> 3233,  E |-> 17, D |-> 2753,  P |-> 61,  Q |-> 53],
      [N |-> 36863, E |-> 7,  D |-> 10423, P |-> 191, Q |-> 193] }

NoKey == [N |-> 0, E |-> 0, D |-> 0, P |-> 0, Q |-> 0]

PublicKey(priv) == [N |-> priv.N, E |-> priv.E]

RECURSIVE ModExp(_, _, _)
ModExp(b, e, m) ==
    IF e = 0 THEN 1 % m
    ELSE LET h == ModExp(b, e \div 2, m)
             s == (h * h) % m
         IN  IF e % 2 = 1 THEN (s * (b % m)) % m ELSE s

\* Sum of f over lo..hi, by halving.
RECURSIVE SumRange(_, _, _)
SumRange(f, lo, hi) ==
    IF lo > hi THEN 0
    ELSE IF lo = hi THEN f[lo]
    ELSE LET mid == (lo + hi) \div 2
         IN  SumRange(f, lo, mid) + SumRange(f, mid + 1, hi)

\* sha1.Sum, scaled down to a two-byte digest: a polynomial checksum.
DigestModulus == 32749
Sha1Sum(b) ==
    LET n == Len(b)
        term == [i \in 1..n |->
                    ((b[i] + 1) * ModExp(31, n - i, DigestModulus)) % DigestModulus]
        h == (ModExp(31, n, DigestModulus) * 7 + SumRange(term, 1, n)) % DigestModulus
    IN  <<h \div 256, h % 256>>

(***************************************************************************)
(* encoding/asn1, crypto/x509: DER as tag-length-value strings.            *)
(***************************************************************************)
Tlv(tag, v) == <<tag, Len(v)>> \o v

\* ASN.1 INTEGER content of a non-negative big integer.
DerInt(b) ==
    IF b = <<>> THEN <<0>>
    ELSE IF b[1] >= 128 THEN <<0>> \o b
    ELSE b

\* isIA5String of crypto/x509: every character is at most 127.
IsIA5String(s) == \A i \in 1..Len(s) : s[i] <= 127

RECURSIVE MarshalNames(_)
MarshalNames(names) ==
    IF names = <<>> THEN <<>>
    ELSE Tlv(130, names[1]) \o MarshalNames(Tail(names))

\* marshalSANs of crypto/x509: a DNS name that is no IA5String is refused.
SANsEncodable(names) == \A i \in 1..Len(names) : IsIA5String(names[i])

\* pkix.Name.ToRDNSequence, one attribute per field.
MarshalName(n) ==
    Tlv(6, n.Country) \o Tlv(10, n.Organization) \o
    Tlv(11, n.OrganizationalUnit) \o Tlv(7, n.Locality) \o
    Tlv(9, n.StreetAddress) \o Tlv(3, n.CommonName)

MarshalPublicKey(pub) ==
    Tlv(2, DerInt(NatBytes(pub.N))) \o Tlv(2, DerInt(NatBytes(pub.E)))

BoolByte(b) == IF b THEN 255 ELSE 0

\* The to-be-signed part x509.CreateCertificate builds from the template,
\* the parent and the public key.
TBSCertificate(template, parent, pub) ==
    LET selfSigned == MarshalName(parent.Subject) = MarshalName(template.Subject)
        authorityKeyId ==
            IF ~selfSigned /\ parent.SubjectKeyId # <<>>
            THEN parent.SubjectKeyId
            ELSE template.AuthorityKeyId
        subjectKeyId ==
            IF template.SubjectKeyId = <<>> /\ template.IsCA
            THEN Sha1Sum(MarshalPublicKey(pub))
            ELSE template.SubjectKeyId
        basic == IF template.BasicConstraintsValid
                 THEN Tlv(19, <<BoolByte(template.IsCA)>>) ELSE <<>>
        ski   == IF subjectKeyId # <<>> THEN Tlv(14, subjectKeyId) ELSE <<>>
        aki   == IF authorityKeyId # <<>> THEN Tlv(35, authorityKeyId) ELSE <<>>
        san   == IF template.DNSNames # <<>>
                 THEN Tlv(17, MarshalNames(template.DNSNames)) ELSE <<>>
    IN  Tlv(2, DerInt(template.SerialNumber)) \o
        Tlv(161, MarshalName(parent.Subject)) \o
        Tlv(162, Tlv(23, NatBytes(template.NotBefore)) \o
                 Tlv(23, NatBytes(template.NotAfter))) \o
        Tlv(163, MarshalName(template.Subject)) \o
        Tlv(164, MarshalPublicKey(pub)) \o
        Tlv(165, basic \o ski \o aki \o san)

\* Signature of the signing key over the digest of the to-be-signed part.
SignPKCS1(priv, tbs) ==
    LET d == Sha1Sum(tbs)
        h == (d[1] * 256 + d[2]) % priv.N
    IN  NatBytes(ModExp(h, priv.D, priv.N))

\* DER of the certificate x509.CreateCertificate returns when it succeeds.
CertificateDER(template, parent, pub, priv) ==
    LET tbs == TBSCertificate(template, parent, pub)
    IN  Tlv(48, Tlv(48, tbs) \o Tlv(3, SignPKCS1(priv, tbs)))

\* x509.MarshalPKCS1PrivateKey
MarshalPKCS1PrivateKey(priv) ==
    Tlv(48, Tlv(2, <<0>>) \o
            Tlv(2, DerInt(NatBytes(priv.N))) \o
            Tlv(2, DerInt(NatBytes(priv.E))) \o
            Tlv(2, DerInt(NatBytes(priv.D))) \o
            Tlv(2, DerInt(NatBytes(priv.P))) \o
            Tlv(2, DerInt(NatBytes(priv.Q))))

(***************************************************************************)
(* encoding/pem: a string is a sequence of characters; 0..63 are the       *)
(* base64 alphabet, PadChar is '=', NewLine ends a line, and a whole       *)
(* BEGIN or END line is one character.                                     *)
(***************************************************************************)
PadChar == 64
NewLine == 65
LineLen == 64
TypeCertificate == 1
TypeRSAPrivateKey == 2
BeginLine(type) == 100 + type
EndLine(type) == 200 + type

\* base64.StdEncoding: three bytes give four characters, the last group
\* is padded.
Base64(b) ==
    LET n == Len(b)
        At(i) == IF i <= n THEN b[i] ELSE 0
        Char(j) ==
            LET g == (j - 1) \div 4
                k == (j - 1) % 4
                b1 == At(3 * g + 1)
                b2 == At(3 * g + 2)
                b3 == At(3 * g + 3)
            IN  CASE k = 0 -> b1 \div 4
                  [] k = 1 -> (b1 % 4) * 16 + b2 \div 16
                  [] k = 2 -> IF 3 * g + 2 > n THEN PadChar
                              ELSE (b2 % 16) * 4 + b3 \div 64
                  [] k = 3 -> IF 3 * g + 3 > n THEN PadChar ELSE b3 % 64
    IN  [j \in 1..(4 * ((n + 2) \div 3)) |-> Char(j)]

\* The line breaker of pem.Encode: a new line after every LineLen
\* characters and after the last one.
BreakLines(c) ==
    LET n == Len(c)
        lines == (n + LineLen - 1) \div LineLen
    IN  [k \in 1..(n + lines) |->
            IF k = n + lines \/ k % (LineLen + 1) = 0
            THEN NewLine
            ELSE c[k - k \div (LineLen + 1)]]

\* pem.Encode into a bytes.Buffer: the text of the block.
PemEncode(type, bytes) ==
    <<BeginLine(type)>> \o BreakLines(Base64(bytes)) \o <<EndLine(type)>>

(***************************************************************************)
(* The state: the frame of every invocation, and the file system.          *)
(***************************************************************************)
VARIABLES
    pc,          \* the statement each invocation is at
    path,        \* the path each invocation was called with
    frame,       \* domainName and the locals of each running invocation
    ret,         \* the returned *AuraeCA
    err,         \* the returned error
    dir,         \* the output directory: "absent", "dir" or "file"
    files,       \* ca.crt and ca.key under the output directory
    lastWrite    \* the invocation whose WriteString reached each file last

vars == <<pc, path, frame, ret, err, dir, files, lastWrite>>

Procs == {1, 2}
NoProc == 0

\* The parameters the callers pass.
OutDir == "out"
Paths == {"", OutDir}
Domains == {<<>>, <<97>>, <<195, 188>>}
\* The wall-clock times (in hours) time.Now can return.
Times == {1}
\* The values the random source can propose for the serial number:
\* 0, 2^128 - 1 and 2^128.
SerialSamples == {<<>>, [i \in 1..16 |-> 255], <<1>> \o Zeros(16)}

FileNames == {"ca.crt", "ca.key"}

\* Permission bits.
Mode0600 == {"ur", "uw"}
Mode0644 == {"ur", "uw", "gr", "or"}
Umask == {"gw", "ow"}

AbsentFile == [exists |-> FALSE, content |-> <<>>, mode |-> {}]
\* Old content: characters that belong to no block.
OldContent == [i \in 1..OldLen |-> 99]
OldFile(m) == [exists |-> TRUE, content |-> OldContent, mode |-> m]

\* AuraeCA{} and the nil error.
EmptyCA == [Certificate |-> <<>>, Key |-> <<>>]
NilErr == [msg |-> "nil", cause |-> "nil"]
Errorf(msg, cause) == [msg |-> msg, cause |-> cause]

\* x509.Certificate{}
ZeroName ==
    [Organization |-> <<>>, OrganizationalUnit |-> <<>>,
     StreetAddress |-> <<>>, Locality |-> <<>>, Country |-> <<>>,
     CommonName |-> <<>>]
ZeroTemplate ==
    [Subject |-> ZeroName, NotBefore |-> 0, NotAfter |-> 0, IsCA |-> FALSE,
     BasicConstraintsValid |-> FALSE, DNSNames |-> <<>>,
     SerialNumber |-> <<>>, SubjectKeyId |-> <<>>, AuthorityKeyId |-> <<>>]

\* The frame of an invocation that is not running.
NoFrame ==
    [domainName |-> <<>>, priv |-> NoKey, template |-> ZeroTemplate,
     derBytes |-> <<>>, certBuf |-> <<>>, keyBuf |-> <<>>, ca |-> EmptyCA]

\* What lies at the output path before the first call: nothing, a regular
\* file, or a directory that holds both files, readable by everyone.
InitialStates ==
    { [dir |-> "absent", files |-> [f \in FileNames |-> AbsentFile]],
      [dir |-> "file",   files |-> [f \in FileNames |-> AbsentFile]],
      [dir |-> "dir",    files |-> [f \in FileNames |-> OldFile(Mode0644)]] }

\* The paths each caller passes.  Calls without a path share nothing with
\* each other, so only the first caller makes them.
CallerPaths == [p \in Procs |-> IF p = 1 THEN Paths ELSE {OutDir}]

Init ==
    /\ pc = [p \in Procs |-> "idle"]
    /\ path = [p \in Procs |-> ""]
    /\ frame = [p \in Procs |-> NoFrame]
    /\ ret = [p \in Procs |-> EmptyCA]
    /\ err = [p \in Procs |-> NilErr]
    /\ \E st \in InitialStates : dir = st.dir /\ files = st.files
    /\ lastWrite = [f \in FileNames |-> NoProc]

\* return bundle, e: the caller gets the two values and the frame is gone.
Return(p, bundle, e) ==
    /\ pc' = [pc EXCEPT ![p] = "done"]
    /\ ret' = [ret EXCEPT ![p] = bundle]
    /\ err' = [err EXCEPT ![p] = e]
    /\ frame' = [frame EXCEPT ![p] = NoFrame]

\* The invocation goes on to the statement at label with the frame fr.
Goto(p, label, fr) ==
    /\ pc' = [pc EXCEPT ![p] = label]
    /\ frame' = [frame EXCEPT ![p] = fr]
    /\ UNCHANGED <<ret, err>>

\* A caller invokes CreateAuraeRootCA(path, domainName).
Call(p) ==
    /\ pc[p] = "idle"
    /\ \E pa \in CallerPaths[p], d \in Domains :
          /\ path' = [path EXCEPT ![p] = pa]
          /\ Goto(p, "genkey", [frame[p] EXCEPT !.domainName = d])
    /\ UNCHANGED <<dir, files, lastWrite>>

\* lines 54-57
GenerateKey(p) ==
    /\ pc[p] = "genkey"
    /\ \/ \E k \in Keys : Goto(p, "template", [frame[p] EXCEPT !.priv = k])
       \/ Return(p, EmptyCA, Errorf("failed to generate private key", "rand"))
    /\ UNCHANGED <<path, dir, files, lastWrite>>

\* 24 * time.Hour * 9999, in hours
ValidityHours == 24 * 9999

Aurae == <<65, 117, 114, 97, 101>>
Runtime == <<82, 117, 110, 116, 105, 109, 101>>
aurae == <<97, 117, 114, 97, 101>>
IS == <<73, 83>>

\* A template that binds no DNS name.
NewTemplate_NoSAN(d, now) ==
    [ZeroTemplate EXCEPT
        !.Subject = [Organization |-> Aurae, OrganizationalUnit |-> Runtime,
                     StreetAddress |-> aurae, Locality |-> aurae,
                     Country |-> IS, CommonName |-> d],
        !.NotBefore = now,
        !.NotAfter = now + ValidityHours,
        !.IsCA = TRUE,
        !.BasicConstraintsValid = TRUE]

\* The template of lines 59-72 for a domain name, built at time now.
NewTemplate(d, now) ==
    [ZeroTemplate EXCEPT
        !.Subject = [Organization |-> Aurae, OrganizationalUnit |-> Runtime,
                     StreetAddress |-> aurae, Locality |-> aurae,
                     Country |-> IS, CommonName |-> d],
        !.NotBefore = now,
        !.NotAfter = now + ValidityHours,
        !.IsCA = TRUE,
        !.BasicConstraintsValid = TRUE,
        !.DNSNames = <<d>>]

\* lines 59-72
BuildTemplate(p) ==
    /\ pc[p] = "template"
    /\ \E now \in Times :
          Goto(p, "serial",
               [frame[p] EXCEPT !.template = NewTemplate(frame[p].domainName, now)])
    /\ UNCHANGED <<path, dir, files, lastWrite>>

\* line 74
SerialShift == 128
\* A limit that is one bit too wide.
serialNumberLimit_Wide == BigLsh(<<1>>, SerialShift + 1)

serialNumberLimit == BigLsh(<<1>>, SerialShift)

\* rand.Int(rand.Reader, max): the values it can return.
RandInt(max) == {c \in SerialSamples : BigLess(c, max)}

\* lines 74-78
DrawSerial(p) ==
    /\ pc[p] = "serial"
    /\ \/ \E s \in RandInt(serialNumberLimit) :
             Goto(p, "keyid", [frame[p] EXCEPT !.template.SerialNumber = s])
       \/ Return(p, EmptyCA, Errorf("failed to generate serial number", "rand"))
    /\ UNCHANGED <<path, dir, files, lastWrite>>

\* Only the subject key identifier is set.
WithKeyIds_NoAuthority(t, key) ==
    [t EXCEPT !.SubjectKeyId = Sha1Sum(NatBytes(key.N))]

\* lines 93-95 applied to a template
WithKeyIds(t, key) ==
    LET pubHash == Sha1Sum(NatBytes(key.N))
        t1 == [t EXCEPT !.SubjectKeyId = pubHash]
    IN  [t1 EXCEPT !.AuthorityKeyId = t1.SubjectKeyId]

\* lines 93-95
ComputeKeyIds(p) ==
    /\ pc[p] = "keyid"
    /\ Goto(p, "sign",
            [frame[p] EXCEPT !.template = WithKeyIds(@, frame[p].priv)])
    /\ UNCHANGED <<path, dir, files, lastWrite>>

\* x509.CreateCertificate(rand, template, parent, pub, priv): the DER
\* bytes, or the cause of the failure.
CreateCertificate(template, parent, pub, key) ==
    IF ~SANsEncodable(template.DNSNames)
    THEN {[ok |-> FALSE, der |-> <<>>, cause |-> "not an IA5String"]}
    ELSE {[ok |-> TRUE, der |-> CertificateDER(template, parent, pub, key),
           cause |-> "nil"],
          [ok |-> FALSE, der |-> <<>>, cause |-> "rand"]}

\* lines 97-100
SelfSign(p) ==
    LET fr == frame[p] IN
    /\ pc[p] = "sign"
    /\ \E r \in CreateCertificate(fr.template, fr.template,
                                  PublicKey(fr.priv), fr.priv) :
          IF r.ok
          THEN Goto(p, "enccert", [fr EXCEPT !.derBytes = r.der])
          ELSE Return(p, EmptyCA, Errorf("failed to create certificate", r.cause))
    /\ UNCHANGED <<path, dir, files, lastWrite>>

\* getCertBuf, lines 102-105 and 163-175
GetCertBuf(p) ==
    /\ pc[p] = "enccert"
    /\ \/ Goto(p, "enckey",
               [frame[p] EXCEPT
                   !.certBuf = PemEncode(TypeCertificate, frame[p].derBytes)])
       \/ Return(p, EmptyCA, Errorf("failed to write certificate buffer", "write"))
    /\ UNCHANGED <<path, dir, files, lastWrite>>

\* getKeyBuf whose failure returns the half-built bundle.
GetKeyBuf_ReturnsPartial(p) ==
    /\ pc[p] = "enckey"
    /\ \/ Goto(p, "bundle",
               [frame[p] EXCEPT
                   !.keyBuf = PemEncode(TypeRSAPrivateKey,
                                        MarshalPKCS1PrivateKey(frame[p].priv))])
       \/ Return(p, [Certificate |-> frame[p].certBuf, Key |-> <<>>],
                 Errorf("failed to write private key buffer", "write"))
    /\ UNCHANGED <<path, dir, files, lastWrite>>

\* getKeyBuf, lines 106-109 and 177-189
GetKeyBuf(p) ==
    /\ pc[p] = "enckey"
    /\ \/ Goto(p, "bundle",
               [frame[p] EXCEPT
                   !.keyBuf = PemEncode(TypeRSAPrivateKey,
                                        MarshalPKCS1PrivateKey(frame[p].priv))])
       \/ Return(p, EmptyCA, Errorf("failed to write private key buffer", "write"))
    /\ UNCHANGED <<path, dir, files, lastWrite>>

\* The bundle is persisted whatever the path.
Persists_Always(pa) == TRUE

\* line 116: whether the bundle is persisted
Persists(pa) == pa # ""

\* lines 111-123: the bundle is built; without a path the call returns it.
BuildBundle(p) ==
    LET bundle == [Certificate |-> frame[p].certBuf, Key |-> frame[p].keyBuf] IN
    /\ pc[p] = "bundle"
    /\ IF Persists(path[p])
       THEN Goto(p, "mkdir", [frame[p] EXCEPT !.ca = bundle])
       ELSE Return(p, bundle, NilErr)
    /\ UNCHANGED <<path, dir, files, lastWrite>>

\* os.MkdirAll(path, os.ModePerm): a regular file in the way makes it fail.
MkdirAllFails(d) == d = "file"

\* lines 127-131
MkdirAll(p) ==
    /\ pc[p] = "mkdir"
    /\ IF MkdirAllFails(dir)
       THEN /\ Return(p, frame[p].ca,
                      Errorf("failed to create output directory", "ENOTDIR"))
            /\ UNCHANGED dir
       ELSE \/ /\ dir' = "dir"
               /\ Goto(p, "opencrt", frame[p])
            \/ /\ Return(p, frame[p].ca,
                         Errorf("failed to create output directory", "EACCES"))
               /\ UNCHANGED dir
    /\ UNCHANGED <<path, files, lastWrite>>

\* The two paths swapped, and the two strings swapped.
FileOf_Swapped(label) ==
    IF label \in {"opencrt", "writecrt"} THEN "ca.key" ELSE "ca.crt"
StringOf_Swapped(label, bundle) ==
    IF label \in {"opencrt", "writecrt"} THEN bundle.Key ELSE bundle.Certificate

\* The file and the string of each call of writeStringToFile (lines 133-141).
FileOf(label) == IF label \in {"opencrt", "writecrt"} THEN "ca.crt" ELSE "ca.key"
StringOf(label, bundle) ==
    IF label \in {"opencrt", "writecrt"} THEN bundle.Certificate ELSE bundle.Key

\* An open without O_TRUNC.
Opened_NoTrunc(f) ==
    IF f.exists
    THEN f
    ELSE [exists |-> TRUE, content |-> <<>>, mode |-> Mode0600 \ Umask]

\* os.OpenFile(p, O_WRONLY|O_CREATE|O_TRUNC, 0o600): an existing file is
\* emptied and keeps its mode; a new file gets the mode, less the umask.
Opened(f) ==
    IF f.exists
    THEN [f EXCEPT !.content = <<>>]
    ELSE [exists |-> TRUE, content |-> <<>>, mode |-> Mode0600 \ Umask]

\* lines 149-153
OpenFile(p) ==
    LET f == FileOf(pc[p]) IN
    /\ pc[p] \in {"opencrt", "openkey"}
    /\ \/ /\ files' = [files EXCEPT ![f] = Opened(@)]
          /\ Goto(p, IF pc[p] = "opencrt" THEN "writecrt" ELSE "writekey", frame[p])
       \/ /\ Return(p, frame[p].ca,
                    Errorf(IF pc[p] = "opencrt" THEN "failed to open file ca.crt"
                           ELSE "failed to open file ca.key", "EACCES"))
          /\ UNCHANGED files
    /\ UNCHANGED <<path, dir, lastWrite>>

\* A write at the end of the file (O_APPEND).
Written_Append(content, s, n) == content \o Take(s, n)

\* f.WriteString(s) on a descriptor at offset 0 writes the first n
\* characters of s over the start of the file.
Written(content, s, n) == Take(s, n) \o Drop(content, n)

\* lines 155-160, and the return of createCAFiles (lines 136-145, 118-123)
WriteString(p) ==
    LET f == FileOf(pc[p])
        s == StringOf(pc[p], frame[p].ca)
    IN
    /\ pc[p] \in {"writecrt", "writekey"}
    /\ \/ /\ files' = [files EXCEPT ![f].content = Written(@, s, Len(s))]
          /\ lastWrite' = [lastWrite EXCEPT ![f] = p]
          /\ IF pc[p] = "writecrt"
             THEN Goto(p, "openkey", frame[p])
             ELSE Return(p, frame[p].ca, NilErr)
       \/ /\ \E n \in 0..MaxPartial :
                files' = [files EXCEPT ![f].content = Written(@, s, n)]
          /\ UNCHANGED lastWrite
          /\ Return(p, frame[p].ca,
                    Errorf(IF pc[p] = "writecrt" THEN "failed to write file ca.crt"
                           ELSE "failed to write file ca.key", "EIO"))
    /\ UNCHANGED <<path, dir>>

Next ==
    \E p \in Procs :
        \/ Call(p)
        \/ GenerateKey(p)
        \/ BuildTemplate(p)
        \/ DrawSerial(p)
        \/ ComputeKeyIds(p)
        \/ SelfSign(p)
        \/ GetCertBuf(p)
        \/ GetKeyBuf(p)
        \/ BuildBundle(p)
        \/ MkdirAll(p)
        \/ OpenFile(p)
        \/ WriteString(p)

Spec == Init /\ [][Next]_vars

\* An invocation is running.
Active(p) == pc[p] \notin {"idle", "done"}

\* A call made while no other invocation is running.
CallAlone(p) ==
    /\ \A q \in Procs : ~Active(q)
    /\ Call(p)

NextSeq ==
    \E p \in Procs :
        \/ CallAlone(p)
        \/ GenerateKey(p)
        \/ BuildTemplate(p)
        \/ DrawSerial(p)
        \/ ComputeKeyIds(p)
        \/ SelfSign(p)
        \/ GetCertBuf(p)
        \/ GetKeyBuf(p)
        \/ BuildBundle(p)
        \/ MkdirAll(p)
        \/ OpenFile(p)
        \/ WriteString(p)

\* Invocations that do not overlap.
SpecSeq == Init /\ [][NextSeq]_vars

(***************************************************************************)
(* Readers of what the program produces: pem.Decode,                       *)
(* x509.ParseCertificate and x509.ParsePKCS1PrivateKey.  The properties    *)
(* below are stated on what a reader gets out of the returned strings and  *)
(* of the files.                                                           *)
(***************************************************************************)
Base64Decode(c) ==
    LET n == Len(c)
        pads == Cardinality({i \in 1..n : c[i] = PadChar})
        Val(i) == IF c[i] = PadChar THEN 0 ELSE c[i]
        Byte(j) ==
            LET g == (j - 1) \div 3
                k == (j - 1) % 3
                c1 == Val(4 * g + 1)
                c2 == Val(4 * g + 2)
                c3 == Val(4 * g + 3)
                c4 == Val(4 * g + 4)
            IN  CASE k = 0 -> c1 * 4 + c2 \div 16
                  [] k = 1 -> (c2 % 16) * 16 + c3 \div 4
                  [] k = 2 -> (c3 % 4) * 64 + c4
    IN  [j \in 1..(3 * (n \div 4) - pads) |-> Byte(j)]

NotNewLine(c) == c # NewLine

\* pem.Decode: the first block of a text.
PemDecode(s) ==
    LET begins == Len(s) >= 2 /\
                  s[1] \in {BeginLine(TypeCertificate), BeginLine(TypeRSAPrivateKey)}
        type == IF begins THEN s[1] - BeginLine(0) ELSE 0
        ends == {i \in 2..Len(s) : s[i] = EndLine(type)}
        e == CHOOSE i \in ends : \A j \in ends : i <= j
        body == SelectSeq(SubSeq(s, 2, e - 1), NotNewLine)
        ok == /\ begins
              /\ ends # {}
              /\ Len(body) % 4 = 0
              /\ \A i \in 1..Len(body) : body[i] <= PadChar
    IN  IF ok THEN [ok |-> TRUE, type |-> type, bytes |-> Base64Decode(body)]
        ELSE [ok |-> FALSE, type |-> 0, bytes |-> <<>>]

\* The tag-length-value elements of a DER string.
RECURSIVE ParseTlvs(_)
ParseTlvs(b) ==
    IF Len(b) < 2 THEN <<>>
    ELSE <<[tag |-> b[1], val |-> Take(Drop(b, 2), b[2])]>> \o
         ParseTlvs(Drop(b, 2 + b[2]))

HasField(b, tag) ==
    LET t == ParseTlvs(b) IN \E i \in 1..Len(t) : t[i].tag = tag

Field(b, tag) ==
    LET t == ParseTlvs(b)
        at == {i \in 1..Len(t) : t[i].tag = tag}
    IN  IF at = {} THEN <<>>
        ELSE t[CHOOSE i \in at : \A j \in at : i <= j].val

Values(b) ==
    LET t == ParseTlvs(b) IN [i \in 1..Len(t) |-> t[i].val]

\* The fields x509.ParseCertificate reads in the to-be-signed part.
ParseTBS(tbs, sig) ==
    [tbs |-> tbs,
     Signature |-> sig,
     SerialNumber |-> StripZeros(Field(tbs, 2)),
     Issuer |-> Field(tbs, 161),
     Subject |-> Field(tbs, 163),
     CommonName |-> Field(Field(tbs, 163), 3),
     N |-> StripZeros(Field(Field(tbs, 164), 2)),
     BasicConstraintsValid |-> HasField(Field(tbs, 165), 19),
     IsCA |-> Field(Field(tbs, 165), 19) = <<255>>,
     SubjectKeyId |-> Field(Field(tbs, 165), 14),
     AuthorityKeyId |-> Field(Field(tbs, 165), 35),
     DNSNames |-> Values(Field(Field(tbs, 165), 17))]

\* x509.ParseCertificate
ParseCertificate(der) ==
    LET parts == {<<Field(outer, 48), Field(outer, 3)>> : outer \in {Field(der, 48)}}
        parsed == {ParseTBS(x[1], x[2]) : x \in parts}
    IN  CHOOSE c \in parsed : TRUE

\* x509.ParsePKCS1PrivateKey
ParsePKCS1PrivateKey(der) ==
    LET v == Values(Field(der, 48))
    IN  IF Len(v) < 6 THEN [N |-> <<>>, E |-> <<>>, D |-> <<>>]
        ELSE [N |-> StripZeros(v[2]), E |-> StripZeros(v[3]), D |-> StripZeros(v[4])]

\* The certificate and the key a reader finds in a text.
CertIn(s) == ParseCertificate(PemDecode(s).bytes)
KeyIn(s) == ParsePKCS1PrivateKey(PemDecode(s).bytes)
IsCertText(s) == LET b == PemDecode(s) IN b.ok /\ b.type = TypeCertificate
IsKeyText(s) == LET b == PemDecode(s) IN b.ok /\ b.type = TypeRSAPrivateKey

RECURSIVE BytesNat(_)
BytesNat(b) == IF b = <<>> THEN 0 ELSE 256 * BytesNat(Take(b, Len(b) - 1)) + b[Len(b)]

\* The signature of certificate c verifies under the public key (n, e).
Verifies(c, n, e) ==
    LET d == Sha1Sum(c.tbs)
        h == (d[1] * 256 + d[2]) % BytesNat(n)
    IN  BytesNat(n) > 0 /\
        ModExp(BytesNat(c.Signature), BytesNat(e), BytesNat(n)) = h

Returned(p) == pc[p] = "done"
Succeeded(p) == pc[p] = "done" /\ err[p] = NilErr
Failed(p) == pc[p] = "done" /\ err[p] # NilErr
\* The step in which invocation p returns.
Returns(p) == pc[p] # "done" /\ pc'[p] = "done"

(***************************************************************************)
(* Properties.                                                             *)
(***************************************************************************)
PersistenceMsgs ==
    {"failed to create output directory",
     "failed to open file ca.crt", "failed to write file ca.crt",
     "failed to open file ca.key", "failed to write file ca.key"}

\* The statements of createCAFiles and writeStringToFile.
PersistenceSteps == {"mkdir", "opencrt", "writecrt", "openkey", "writekey"}

\* The causes that lie in the environment: the random source, the buffer
\* writer and the file system.
EnvCauses == {"rand", "write", "ENOTDIR", "EACCES", "EIO"}

BundleString(f, b) == IF f = "ca.crt" THEN b.Certificate ELSE b.Key

\* Every invocation targeted the output directory and returned a nil error.
AllSucceededOnOutDir == \A p \in Procs : Succeeded(p) /\ path[p] = OutDir

\* 2^128
TwoTo128 == <<1>> \o Zeros(16)

\* C1: a returned call has one of three outcomes: a nil error with a
\* complete bundle; a persistence error with the complete bundle; any
\* other error with the empty bundle.
C1_ThreeOutcomes ==
    [][\A p \in Procs :
          Returns(p) =>
              LET complete == /\ IsCertText(ret'[p].Certificate)
                              /\ IsKeyText(ret'[p].Key)
                              /\ ret'[p] = [Certificate |-> frame[p].certBuf,
                                            Key |-> frame[p].keyBuf]
              IN  /\ \/ err'[p] = NilErr /\ complete
                     \/ /\ err'[p] # NilErr
                        /\ err'[p].msg \in PersistenceMsgs
                        /\ complete
                     \/ /\ err'[p] # NilErr
                        /\ err'[p].msg \notin PersistenceMsgs
                        /\ ret'[p] = EmptyCA
                  /\ err'[p] # NilErr =>
                        (err'[p].msg \in PersistenceMsgs <=>
                            pc[p] \in PersistenceSteps)]_vars

C1_Witness ==
    \E p, q \in Procs :
        /\ Failed(p) /\ err[p].msg \in PersistenceMsgs /\ ret[p] # EmptyCA
        /\ Failed(q) /\ err[q].msg \notin PersistenceMsgs /\ ret[q] = EmptyCA

\* C2: when invocations do not overlap, a call with a path that returns
\* a nil error leaves ca.crt and ca.key existing, non-empty and equal to
\* the returned Certificate and Key, whatever they held before.
C2_FilesEqualBundle ==
    [][\A p \in Procs :
          (Returns(p) /\ err'[p] = NilErr /\ path[p] # "") =>
              /\ \A f \in FileNames :
                    /\ files'[f].exists
                    /\ files'[f].content # <<>>
                    /\ files'[f].content = BundleString(f, ret'[p])]_vars

\* A second call has replaced the longer certificate of a first one.
C2_Witness ==
    \E p, q \in Procs :
        /\ Succeeded(p) /\ Succeeded(q)
        /\ path[p] = OutDir /\ path[q] = OutDir
        /\ Len(ret[p].Certificate) > Len(ret[q].Certificate)
        /\ \A f \in FileNames :
              lastWrite[f] = q /\ files[f].content = BundleString(f, ret[q])

\* C3: after a successful call with a path, both files have mode 0600,
\* also when they existed before with a more permissive mode.
C3_OwnerOnlyMode ==
    \A p \in Procs :
        (Succeeded(p) /\ path[p] # "") =>
            \A f \in FileNames : files[f].mode = Mode0600

\* C4: no step of an invocation called with the empty path touches the
\* file system.
C4_EmptyPathNoFiles ==
    [][\A p \in Procs :
          (pc'[p] # pc[p] /\ path'[p] = "") =>
              (dir' = dir /\ files' = files)]_vars

C4_Witness ==
    \E p \in Procs :
        /\ Succeeded(p) /\ path[p] = "" /\ ret[p] # EmptyCA
        /\ dir = "absent"

\* C5, as claimed: when all invocations on the same path have returned a
\* nil error, each file holds exactly the string of its last writer.
C5_LastWriterExact ==
    AllSucceededOnOutDir =>
        \A f \in FileNames :
            /\ lastWrite[f] \in Procs
            /\ files[f].content = BundleString(f, ret[lastWrite[f]])

\* C5, amended: each file is non-empty and starts with the complete
\* string of its last writer, which is the block a reader decodes; bytes
\* of a longer string of another invocation can follow it.
C5_LastWriterPrefix ==
    AllSucceededOnOutDir =>
        \A f \in FileNames :
            /\ lastWrite[f] \in Procs
            /\ files[f].content # <<>>
            /\ IsPrefix(BundleString(f, ret[lastWrite[f]]), files[f].content)
            /\ PemDecode(files[f].content) =
                   PemDecode(BundleString(f, ret[lastWrite[f]]))

\* A file holds the string of its last writer followed by other bytes.
C5_Witness ==
    /\ AllSucceededOnOutDir
    /\ \E f \in FileNames :
          /\ lastWrite[f] \in Procs
          /\ Len(files[f].content) > Len(BundleString(f, ret[lastWrite[f]]))

\* C6: in a certificate returned by a successful call the subject and
\* authority key identifiers are equal, and equal the digest of the
\* modulus of the returned key, which is the certified and signing key.
C6_KeyIdentifiers ==
    [][\A p \in Procs :
          (Returns(p) /\ err'[p] = NilErr) =>
              \A c \in {CertIn(ret'[p].Certificate)}, k \in {KeyIn(ret'[p].Key)} :
                  /\ c.SubjectKeyId # <<>>
                  /\ c.SubjectKeyId = c.AuthorityKeyId
                  /\ c.SubjectKeyId = Sha1Sum(k.N)
                  /\ c.N = k.N
                  /\ c.Issuer = c.Subject
                  /\ Verifies(c, k.N, k.E)
                  /\ BytesNat(k.N) = frame[p].priv.N
                  /\ BytesNat(k.D) = frame[p].priv.D]_vars

\* Two successful calls with different keys.
C6_Witness ==
    \E p, q \in Procs :
        /\ Succeeded(p) /\ Succeeded(q)
        /\ CertIn(ret[p].Certificate).SubjectKeyId #
               CertIn(ret[q].Certificate).SubjectKeyId

TemplateBuilt == {"serial", "keyid", "sign", "enccert", "enckey", "bundle",
                  "mkdir", "opencrt", "writecrt", "openkey", "writekey"}

\* The template carries the domain name as it was given.
TemplateVerbatim(p) ==
    pc[p] \in TemplateBuilt =>
        /\ frame[p].template.Subject.CommonName = frame[p].domainName
        /\ frame[p].template.DNSNames = <<frame[p].domainName>>
        /\ frame[p].template.IsCA
        /\ frame[p].template.BasicConstraintsValid

\* C7, as claimed: the template carries any domain name verbatim, and no
\* call fails because of the domain name: every failure has its cause in
\* the environment.
C7_NeverFailsOnDomain ==
    \A p \in Procs :
        /\ TemplateVerbatim(p)
        /\ Failed(p) => err[p].cause \in EnvCauses

\* C7, amended: the template and the issued certificate carry the domain
\* name verbatim as Common Name and only DNS name, with isCA set; a call
\* fails because of the domain name exactly when the name is no IA5
\* (ASCII) string, and then with "failed to create certificate" and the
\* empty bundle.
C7_FailsOnlyOnNonIA5 ==
    [][\A p \in Procs :
          /\ TemplateVerbatim(p)'
          /\ Returns(p) =>
                /\ (err'[p] # NilErr /\ err'[p].cause \notin EnvCauses) =>
                      /\ ~IsIA5String(frame[p].domainName)
                      /\ err'[p].msg = "failed to create certificate"
                      /\ ret'[p] = EmptyCA
                /\ ~IsIA5String(frame[p].domainName) =>
                      (err'[p] # NilErr /\ ret'[p] = EmptyCA)
          /\ (pc[p] = "sign" /\ pc'[p] = "enccert") =>
                LET c == ParseCertificate(frame'[p].derBytes)
                IN  /\ c.CommonName = frame[p].domainName
                    /\ c.DNSNames = <<frame[p].domainName>>
                    /\ c.IsCA /\ c.BasicConstraintsValid]_vars

\* A name that is no IA5 string was refused, and the empty name certified.
C7_Witness ==
    \E p, q \in Procs :
        /\ Failed(p) /\ err[p].cause = "not an IA5String"
        /\ Succeeded(q)
        /\ CertIn(ret[q].Certificate).CommonName = <<>>
        /\ CertIn(ret[q].Certificate).DNSNames = << <<>> >>

\* C8: the serial number of every certificate is below 2^128, and a
\* failure to draw it ends the call before a certificate exists.
C8_SerialRange ==
    [][\A p \in Procs :
          /\ (Returns(p) /\ ret'[p] # EmptyCA) =>
                BigLess(CertIn(ret'[p].Certificate).SerialNumber, TwoTo128)
          /\ (pc[p] = "sign" /\ pc'[p] = "enccert") =>
                BigLess(ParseCertificate(frame'[p].derBytes).SerialNumber,
                        TwoTo128)
          /\ pc'[p] \in {"idle", "genkey", "template", "serial"} =>
                frame'[p].derBytes = <<>>
          /\ (Returns(p) /\ pc[p] = "serial") =>
                /\ err'[p].msg = "failed to generate serial number"
                /\ ret'[p] = EmptyCA
                /\ frame[p].derBytes = <<>>
          /\ (Returns(p) /\ err'[p].msg = "failed to generate serial number") =>
                pc[p] = "serial"]_vars

\* Certificates with the serial numbers 0 and 2^128 - 1 were returned.
C8_Witness ==
    \E p, q \in Procs :
        /\ ret[p] # EmptyCA /\ ret[q] # EmptyCA
        /\ CertIn(ret[p].Certificate).SerialNumber = <<>>
        /\ CertIn(ret[q].Certificate).SerialNumber = [i \in 1..16 |-> 255]

\* The statement that follows each statement.
StepAfter ==
    [l \in {"idle", "genkey", "template", "serial", "keyid", "sign",
            "enccert", "enckey", "bundle", "mkdir", "opencrt", "writecrt",
            "openkey", "writekey"} |->
        CASE l = "idle" -> "genkey"
          [] l = "genkey" -> "template"
          [] l = "template" -> "serial"
          [] l = "serial" -> "keyid"
          [] l = "keyid" -> "sign"
          [] l = "sign" -> "enccert"
          [] l = "enccert" -> "enckey"
          [] l = "enckey" -> "bundle"
          [] l = "bundle" -> "mkdir"
          [] l = "mkdir" -> "opencrt"
          [] l = "opencrt" -> "writecrt"
          [] l = "writecrt" -> "openkey"
          [] l = "openkey" -> "writekey"
          [] l = "writekey" -> "done"]

\* C9: the steps run in the fixed order; a failing step ends the call,
\* nothing runs after the return; the directory is touched only by the
\* directory step, ca.crt only by its open and write, ca.key only by its
\* open and write, which come after the write of ca.crt succeeded.
C9_FixedOrder ==
    [][\A p \in Procs :
          pc'[p] # pc[p] =>
              /\ pc[p] # "done"
              /\ pc'[p] \in {StepAfter[pc[p]], "done"}
              /\ err'[p] # NilErr => pc'[p] = "done"
              /\ (pc'[p] = "done" /\ err'[p] = NilErr) =>
                    \/ pc[p] = "writekey"
                    \/ pc[p] = "bundle" /\ path[p] = ""
              /\ dir' # dir => (pc[p] = "mkdir" /\ pc'[p] = "opencrt")
              /\ files'["ca.crt"] # files["ca.crt"] =>
                    pc[p] \in {"opencrt", "writecrt"}
              /\ files'["ca.key"] # files["ca.key"] =>
                    pc[p] \in {"openkey", "writekey"}
              /\ (pc[p] \in {"mkdir", "opencrt", "openkey"} /\ pc'[p] = "done") =>
                    files' = files]_vars

\* The write of ca.crt failed and the old ca.key is as it was.
C9_Witness ==
    \E p \in Procs :
        /\ Failed(p)
        /\ err[p].msg \in {"failed to open file ca.crt", "failed to write file ca.crt"}
        /\ files["ca.key"] = OldFile(Mode0644)
        /\ files["ca.crt"] # OldFile(Mode0644)

\* C10, as claimed: when all invocations on the same path have returned a
\* nil error, the key in ca.key is the key of the certificate in ca.crt.
C10_MatchingPair ==
    AllSucceededOnOutDir =>
        /\ IsCertText(files["ca.crt"].content)
        /\ IsKeyText(files["ca.key"].content)
        /\ CertIn(files["ca.crt"].content).N = KeyIn(files["ca.key"].content).N

\* C10, amended: ca.crt holds the certificate of one of the invocations
\* and ca.key the key of one of them; they are a matching pair when the
\* same invocation wrote both files last.
C10_EachFromSomeInvocation ==
    AllSucceededOnOutDir =>
        /\ IsCertText(files["ca.crt"].content)
        /\ IsKeyText(files["ca.key"].content)
        /\ \E p \in Procs :
              CertIn(files["ca.crt"].content) = CertIn(ret[p].Certificate)
        /\ \E q \in Procs :
              KeyIn(files["ca.key"].content) = KeyIn(ret[q].Key)
        /\ lastWrite["ca.crt"] = lastWrite["ca.key"] =>
              CertIn(files["ca.crt"].content).N = KeyIn(files["ca.key"].content).N

\* The certificate of one invocation lies next to the key of the other.
C10_Witness ==
    /\ AllSucceededOnOutDir
    /\ lastWrite["ca.crt"] # lastWrite["ca.key"]
    /\ CertIn(files["ca.crt"].content).N # KeyIn(files["ca.key"].content).N

====
